---- MODULE Spec2Model ----
(***************************************************************************)
(* A model of the rocketchat REST client: the RocketChat session object    *)
(* (src/rocketchat/rocketchat.py), the APIPath descriptors declared on it  *)
(* as class attributes, and the stand-alone APIPath of                     *)
(* src/rocketchat/apipath.py.                                              *)
(*                                                                         *)
(* Encodings.  Python's None and an absent attribute are the empty         *)
(* sequence << >>, a present value x is << x >>.  A Python str built by    *)
(* concatenation is the sequence of the pieces concatenated.  A JSON value *)
(* is a tagged record [t |-> type, v |-> value]; a dict is a function from *)
(* key strings to JSON values; a kwargs mapping is the sequence of its     *)
(* [k, v] items in insertion order.                                        *)
(***************************************************************************)
EXTENDS Integers, Sequences, FiniteSets, TLC

VARIABLES st, url, user_id, auth_token, api, api_v1_path, last, granted

vars == <<st, url, user_id, auth_token, api, api_v1_path, last, granted>>

(* bounds of the model *)
MaxArgs == 2
MaxKwargs == 2

None == << >>
Some(x) == << x >>

JStr(s) == [t |-> "str", v |-> s]
JInt(n) == [t |-> "int", v |-> n]
JBool(b) == [t |-> "bool", v |-> b]
JObj(f) == [t |-> "obj", v |-> f]

(* the clients (RocketChat objects) a program creates, and the base URL it *)
(* hands each one                                                          *)
Clients == {"A", "B"}
BaseUrl(c) == IF c = "A" THEN "http://a.example" ELSE "http://b.example"

(* the username and password the caller passes when it builds client c *)
Username(c) == IF c = "A" THEN "alice" ELSE "bob"
Password(c) == IF c = "A" THEN "secret" ELSE "hunter2"

----------------------------------------------------------------------------
(* The endpoint declarations: the arguments of the APIPath(...) calls in   *)
(* the body of class RocketChat, defaults of the signature filled in.      *)
(* parent is the APIPath object whose instance attribute the declaration   *)
(* is assigned to (None for a class attribute of RocketChat).              *)

Decl(path, method, arg_endpoint, result_key, auth, api_root, parent) ==
    [path |-> path, method |-> method, arg_endpoint |-> arg_endpoint,
     result_key |-> result_key, auth |-> auth, api_root |-> api_root,
     parent |-> parent]

DefaultRoot == "/api/v1/"

Registry ==
    [d \in {"info", "logout", "channels", "channels.archive", "channels.list",
            "channels.list.joined", "push", "push.token", "push.token.delete",
            "settings", "settings.get", "settings.set"} |->
       CASE d = "info" ->
              Decl("info", Some("GET"), FALSE, Some("info"), FALSE, "/api/", None)
         [] d = "logout" ->
              Decl("logout", Some("POST"), FALSE, None, TRUE, DefaultRoot, None)
         [] d = "channels" ->
              Decl("channels", None, FALSE, None, TRUE, DefaultRoot, None)
         [] d = "channels.archive" ->
              Decl("channels.archive", Some("POST"), FALSE, Some("success"), TRUE,
                   DefaultRoot, Some("channels"))
         [] d = "channels.list" ->
              Decl("channels.list", Some("GET"), FALSE, Some("channels"), TRUE,
                   DefaultRoot, Some("channels"))
         [] d = "channels.list.joined" ->
              Decl("channels.list.joined", Some("GET"), FALSE, Some("channels"), TRUE,
                   DefaultRoot, Some("channels.list"))
         [] d = "push" ->
              Decl("push", None, FALSE, None, TRUE, DefaultRoot, None)
         [] d = "push.token" ->
              Decl("push.token", None, FALSE, None, TRUE, DefaultRoot, Some("push"))
         [] d = "push.token.delete" ->
              Decl("push.token", Some("DELETE"), FALSE, None, TRUE, DefaultRoot,
                   Some("push.token"))
         [] d = "settings" ->
              Decl("settings", None, FALSE, None, TRUE, DefaultRoot, None)
         [] d = "settings.get" ->
              Decl("settings", Some("GET"), TRUE, None, TRUE, DefaultRoot,
                   Some("settings"))
         [] d = "settings.set" ->
              Decl("settings", Some("POST"), TRUE, None, TRUE, DefaultRoot,
                   Some("settings"))]

Desc == DOMAIN Registry

(* the class attributes of RocketChat: the descriptors __get__ is called for *)
TopLevel == {d \in Desc : Registry[d].parent = None}

(* the APIPath objects stored in d.__dict__ *)
Children(d) == {e \in Desc : Registry[e].parent = Some(d)}

----------------------------------------------------------------------------
(* Values and the two conversions the dispatcher applies to its arguments  *)

(* what a raised call and a returning call leave with the caller *)
Return(v) == [kind |-> "return", value |-> Some(v), exc |-> None]
Raise(cls, args) == [kind |-> "raise", value |-> None, exc |-> Some([cls |-> cls, args |-> args])]
NoOutcome == [kind |-> "none", value |-> None, exc |-> None]

(* "{}".format(x): the str() of one positional argument *)
str_format(a) ==
    CASE a.t = "str" -> a.v
      [] a.t = "int" -> ToString(a.v)
      [] a.t = "bool" -> IF a.v THEN "True" ELSE "False"

(* json.dumps of a scalar *)
json_value(x) ==
    CASE x.t = "str" -> <<"\"", x.v, "\"">>
      [] x.t = "int" -> <<ToString(x.v)>>
      [] x.t = "bool" -> IF x.v THEN <<"true">> ELSE <<"false">>

RECURSIVE json_items(_)
json_items(kw) ==
    IF kw = << >> THEN << >>
    ELSE <<"\"", kw[1].k, "\"", ": ">> \o json_value(kw[1].v)
         \o (IF Len(kw) > 1 THEN <<", ">> ELSE << >>)
         \o json_items(Tail(kw))

(* json.dumps(kwargs): the text of the JSON object, piece by piece *)
json_dumps(kw) == <<"{">> \o json_items(kw) \o <<"}">>

----------------------------------------------------------------------------
(* class RocketChat: the session *)

(* the object as the dispatcher sees it: its attributes, and the class     *)
(* attribute api_v1_path that RocketChat._url and APIPath._url read        *)
Session(c) ==
    [url |-> url[c][1], user_id |-> user_id[c], auth_token |-> auth_token[c],
     api_v1_path |-> api_v1_path]

auth_header(s) ==
    [h \in {"X-Auth-Token", "X-User-Id", "Content-type"} |->
       CASE h = "X-Auth-Token" -> s.auth_token
         [] h = "X-User-Id" -> s.user_id
         [] h = "Content-type" -> Some("application/json")]

(* RocketChat._url(path): None when the attribute lookup raises *)
RocketChat_url(s, path) ==
    IF s.api_v1_path = None THEN None
    ELSE Some(<<s.url>> \o s.api_v1_path \o <<path>>)

(* requests.post(url, data=kwargs) / requests.request(...) as sent *)
Request(method, u, params, data, headers) ==
    [method |-> method, url |-> u, params |-> params, data |-> data,
     headers |-> headers]

(* the two fields of a session *)
Fields(u, t) == [user_id |-> u, auth_token |-> t]

(* a rejected login that also forgets the credentials it had *)
login_rejected_clearing(s, j) ==
    [fields |-> Fields(None, None),
     outcome |-> IF "message" \in DOMAIN j
                 THEN Raise("Exception", <<j["message"]>>)
                 ELSE Raise("KeyError", <<JStr("message")>>)]

(* login, lines 401-402: the status is not "success" *)
login_rejected(s, j) ==
    [fields |-> Fields(s.user_id, s.auth_token),
     outcome |-> IF "message" \in DOMAIN j
                 THEN Raise("Exception", <<j["message"]>>)
                 ELSE Raise("KeyError", <<JStr("message")>>)]

(* the two assignments with their right-hand sides exchanged *)
login_store_swapped(s, j) ==
    IF "data" \notin DOMAIN j
    THEN [fields |-> Fields(s.user_id, s.auth_token),
          outcome |-> Raise("KeyError", <<JStr("data")>>)]
    ELSE IF "authToken" \notin DOMAIN j["data"].v
    THEN [fields |-> Fields(s.user_id, s.auth_token),
          outcome |-> Raise("KeyError", <<JStr("authToken")>>)]
    ELSE IF "userId" \notin DOMAIN j["data"].v
    THEN [fields |-> Fields(Some(j["data"].v["authToken"].v), s.auth_token),
          outcome |-> Raise("KeyError", <<JStr("userId")>>)]
    ELSE [fields |-> Fields(Some(j["data"].v["authToken"].v),
                            Some(j["data"].v["userId"].v)),
          outcome |-> [kind |-> "return", value |-> None, exc |-> None]]

(* login, lines 403-404: the two assignments, in order; a missing key      *)
(* raises at its subscript and leaves the assignments before it done       *)
login_store(s, j) ==
    IF "data" \notin DOMAIN j
    THEN [fields |-> Fields(s.user_id, s.auth_token),
          outcome |-> Raise("KeyError", <<JStr("data")>>)]
    ELSE IF "userId" \notin DOMAIN j["data"].v
    THEN [fields |-> Fields(s.user_id, s.auth_token),
          outcome |-> Raise("KeyError", <<JStr("userId")>>)]
    ELSE IF "authToken" \notin DOMAIN j["data"].v
    THEN [fields |-> Fields(Some(j["data"].v["userId"].v), s.auth_token),
          outcome |-> Raise("KeyError", <<JStr("authToken")>>)]
    ELSE [fields |-> Fields(Some(j["data"].v["userId"].v),
                            Some(j["data"].v["authToken"].v)),
          outcome |-> [kind |-> "return", value |-> None, exc |-> None]]

(* RocketChat.login on the session s, with the service answering resp:     *)
(* the request sent, what the call leaves with the caller, and the two     *)
(* fields after it                                                         *)
RocketChat_login(s, kwargs, resp) ==
    LET u == RocketChat_url(s, "login")
        req == IF u = None THEN None
               ELSE Some(Request("POST", u[1], None, Some(kwargs), None))
        keep == Fields(s.user_id, s.auth_token)
        R(o) == [request |-> req, fields |-> o.fields, outcome |-> o.outcome]
    IN  IF u = None
        THEN R([fields |-> keep,
                outcome |-> Raise("AttributeError", <<JStr("api_v1_path")>>)])
        ELSE IF resp.body = None
        THEN R([fields |-> keep, outcome |-> Raise("JSONDecodeError", << >>)])
        ELSE IF "status" \notin DOMAIN resp.body[1]
        THEN R([fields |-> keep, outcome |-> Raise("KeyError", <<JStr("status")>>)])
        ELSE IF resp.body[1]["status"] # JStr("success")
        THEN R(login_rejected(s, resp.body[1]))
        ELSE R(login_store(s, resp.body[1]))

----------------------------------------------------------------------------
(* class APIPath of rocketchat.py: the descriptor *)

(* APIPath.__init__: what the object keeps of its declaration (auth and    *)
(* api_root are accepted and not stored)                                   *)
APIPath_init(decl) ==
    [path |-> decl.path, method |-> decl.method,
     arg_endpoint |-> decl.arg_endpoint, result_key |-> decl.result_key]

(* APIPath._propagate_api: f is the _api field of every descriptor; kids   *)
(* are the children of d still to visit                                    *)
RECURSIVE propagate_api(_, _, _)
propagate_api(f, d, kids) ==
    IF kids = {} THEN f
    ELSE LET e == CHOOSE x \in kids : TRUE
             f1 == [f EXCEPT ![e] = f[d]]
             f2 == propagate_api(f1, e, Children(e))
         IN  propagate_api(f2, d, kids \ {e})

(* APIPath.__get__(obj, objtype) on the class attribute d *)
APIPath_get(f, obj, d) ==
    IF f[d] = None
    THEN propagate_api([f EXCEPT ![d] = obj], d, Children(d))
    ELSE f

(* APIPath._url(path): None when an attribute lookup raises *)
APIPath_url(s, path) ==
    IF s.api_v1_path = None THEN None
    ELSE Some(<<s.url>> \o s.api_v1_path \o <<path>>)

(* every verb sends the named parameters in the query string *)
APIPath_payload_query(method, kwargs) == [params |-> Some(kwargs), data |-> None]

(* __call__, lines 94-99: the verb decides where the named parameters go *)
APIPath_payload(method, kwargs) ==
    IF method = "GET"
    THEN [params |-> Some(kwargs), data |-> None]
    ELSE [params |-> None, data |-> Some(json_dumps(kwargs))]

(* the result key is not applied: the whole decoded object is returned *)
APIPath_result_whole(self, r) ==
    IF r.body = None THEN Raise("JSONDecodeError", << >>)
    ELSE IF "error" \in DOMAIN r.body[1]
    THEN IF "errorType" \in DOMAIN r.body[1]
         THEN Raise("RocketChatError", <<r.body[1]["errorType"], r.body[1]["error"]>>)
         ELSE Raise("KeyError", <<JStr("errorType")>>)
    ELSE Return(JObj(r.body[1]))

(* __call__, lines 109-122: the response r becomes the call's outcome *)
APIPath_result(self, r) ==
    IF r.body = None THEN Raise("JSONDecodeError", << >>)
    ELSE LET result == r.body[1] IN
         IF "error" \in DOMAIN result
         THEN IF "errorType" \in DOMAIN result
              THEN Raise("RocketChatError", <<result["errorType"], result["error"]>>)
              ELSE Raise("KeyError", <<JStr("errorType")>>)
         ELSE IF self.result_key # None
         THEN IF self.result_key[1] \in DOMAIN result
              THEN Return(result[self.result_key[1]])
              ELSE Raise("KeyError", <<JStr(self.result_key[1])>>)
         ELSE Return(JObj(result))

(* __call__, lines 101-103: the URL, None with the exception raised on the *)
(* way when there is one                                                   *)
APIPath_target(self, s, args) ==
    LET u == APIPath_url(s, self.path) IN
    IF u = None
    THEN [url |-> None, exc |-> Raise("AttributeError", <<JStr("api_v1_path")>>)]
    ELSE IF ~self.arg_endpoint THEN [url |-> u, exc |-> NoOutcome]
    ELSE IF Len(args) = 0
    THEN [url |-> None, exc |-> Raise("IndexError", <<JStr("tuple index out of range")>>)]
    ELSE [url |-> Some(u[1] \o <<"/", str_format(args[1])>>), exc |-> NoOutcome]

(* __call__, line 104 *)
APIPath_headers(self, s) == Some(auth_header(s))

(* a namespace call that returns an empty object instead of raising *)
APIPath_invalid_silent(self) == Return(JObj(<< >>))

(* __call__, line 92: the exception of a descriptor declared with no method *)
APIPath_invalid(self) ==
    Raise("Exception", <<JStr("Not a valid endpoint: "), JStr(self.path)>>)

(* APIPath.__call__ on a descriptor whose _api is the session bound (None  *)
(* or a session), the service answering r when a request is sent           *)
APIPath_call(self, bound, args, kwargs, r) ==
    IF self.method = None
    THEN [request |-> None, outcome |-> APIPath_invalid(self)]
    ELSE IF bound = None
    THEN [request |-> None, outcome |-> Raise("AttributeError", <<JStr("url")>>)]
    ELSE LET s == bound[1]
             p == APIPath_payload(self.method[1], kwargs)
             t == APIPath_target(self, s, args)
         IN  IF t.url = None THEN [request |-> None, outcome |-> t.exc]
             ELSE [request |-> Some(Request(self.method[1], t.url[1], p.params,
                                            p.data, APIPath_headers(self, s))),
                   outcome |-> APIPath_result(self, r)]

----------------------------------------------------------------------------
(* class APIPath of apipath.py: a descriptor bound to its api when built *)

apipath_init(a, decl) ==
    [api |-> a, path |-> decl.path, method |-> decl.method,
     arg_endpoint |-> decl.arg_endpoint, result_key |-> decl.result_key,
     auth |-> decl.auth, api_root |-> decl.api_root]

(* APIPath._url() *)
apipath_url(self, s) == <<s.url, self.api_root, self.path>>

(* __call__, lines 67-72 *)
apipath_payload(method, kwargs) ==
    IF method = "GET"
    THEN [params |-> Some(kwargs), data |-> None]
    ELSE [params |-> None, data |-> Some(json_dumps(kwargs))]

(* __call__, lines 74-76 *)
apipath_target(self, s, args) ==
    LET u == apipath_url(self, s) IN
    IF ~self.arg_endpoint THEN [url |-> Some(u), exc |-> NoOutcome]
    ELSE IF Len(args) = 0
    THEN [url |-> None, exc |-> Raise("IndexError", <<JStr("tuple index out of range")>>)]
    ELSE [url |-> Some(u \o <<"/", str_format(args[1])>>), exc |-> NoOutcome]

(* __call__, lines 78-80: request_kwargs["headers"] *)
apipath_headers(self, s) == IF self.auth THEN Some(auth_header(s)) ELSE None

(* __call__, lines 85-100 *)
apipath_result(self, r) ==
    IF r.body = None THEN Raise("JSONDecodeError", << >>)
    ELSE LET result == r.body[1] IN
         IF "error" \in DOMAIN result
         THEN IF "errorType" \in DOMAIN result
              THEN Raise("RocketChatError", <<result["errorType"], result["error"]>>)
              ELSE Raise("KeyError", <<JStr("errorType")>>)
         ELSE IF self.result_key # None
         THEN IF self.result_key[1] \in DOMAIN result
              THEN Return(result[self.result_key[1]])
              ELSE Raise("KeyError", <<JStr(self.result_key[1])>>)
         ELSE Return(JObj(result))

(* APIPath.__call__ of apipath.py, s the session self._api *)
apipath_call(self, s, args, kwargs, r) ==
    IF self.method = None
    THEN [request |-> None,
          outcome |-> Raise("ValueError", <<JStr("Not a valid endpoint: "), JStr(self.path)>>)]
    ELSE LET p == apipath_payload(self.method[1], kwargs)
             t == apipath_target(self, s, args)
         IN  IF t.url = None THEN [request |-> None, outcome |-> t.exc]
             ELSE [request |-> Some(Request(self.method[1], t.url[1], p.params,
                                            p.data, apipath_headers(self, s))),
                   outcome |-> apipath_result(self, r)]


----------------------------------------------------------------------------
(* What the callers pass and what the service answers *)

ArgValues == {JStr("SiteName"), JInt(5)}

(* positional arguments: none, or one of ArgValues followed by extras *)
ArgSeqs ==
    {<< >>} \cup {[i \in 1..n |-> IF i = 1 THEN a ELSE JStr("extra")] :
                    a \in ArgValues, n \in 1..MaxArgs}

KwPool ==
    <<[k |-> "roomId", v |-> JStr("r1")], [k |-> "count", v |-> JInt(3)],
      [k |-> "readOnly", v |-> JBool(TRUE)], [k |-> "name", v |-> JStr("n1")]>>

(* named arguments, in the order given *)
KwSeqs == {SubSeq(KwPool, 1, n) : n \in 0..MaxKwargs}

Response(status_code, text, body) ==
    [status_code |-> status_code, text |-> text, body |-> body]

Dict1(k, v) == [x \in {k} |-> v]

(* the value the service stores under a result key *)
PayloadOf(k) ==
    CASE k = "success" -> JBool(TRUE)
      [] k = "info" -> JObj(Dict1("version", JStr("3.0")))
      [] OTHER -> JObj(Dict1("name", JStr("general")))

ErrorBody == Dict1("error", JStr("X")) @@ Dict1("errorType", JStr("Y"))

(* the answers to a call of the endpoint declared as decl *)
CallResponses(decl) ==
    LET k == IF decl.result_key = None THEN "success" ELSE decl.result_key[1] IN
    { Response(500, "<html>", None),
      Response(200, "ok", Some(Dict1("success", JBool(TRUE)))),
      Response(200, "payload", Some(Dict1("success", JBool(TRUE)) @@ Dict1(k, PayloadOf(k)))),
      Response(400, "error", Some(ErrorBody @@ Dict1("success", JBool(FALSE)))),
      Response(200, "error+payload", Some(ErrorBody @@ Dict1(k, PayloadOf(k)))),
      Response(400, "error-untyped", Some(Dict1("error", JStr("X")) @@ Dict1("success", JBool(FALSE)))) }

(* the credentials the service issues *)
Issued(n) == Dict1("userId", JStr(IF n = 1 THEN "u1" ELSE "u2"))
             @@ Dict1("authToken", JStr(IF n = 1 THEN "t1" ELSE "t2"))

LoginOk(n) ==
    Response(200, "success", Some(Dict1("status", JStr("success")) @@ Dict1("data", JObj(Issued(n)))))
LoginRejected ==
    Response(401, "rejected", Some(Dict1("status", JStr("error"))
                                   @@ Dict1("message", JStr("bad credentials"))))

(* the answers to a login: complete, rejected, and the incomplete ones *)
LoginResponses ==
    { LoginOk(1), LoginOk(2), LoginRejected,
      Response(200, "no-token", Some(Dict1("status", JStr("success"))
                  @@ Dict1("data", JObj(Dict1("userId", JStr("u2")))))),
      Response(200, "no-user", Some(Dict1("status", JStr("success"))
                  @@ Dict1("data", JObj(Dict1("authToken", JStr("t2")))))),
      Response(401, "no-message", Some(Dict1("status", JStr("error")))),
      Response(502, "<html>", None) }

LoginKwSeqs ==
    { << >>, <<[k |-> "username", v |-> JStr("alice")], [k |-> "password", v |-> JStr("secret")]>> }

----------------------------------------------------------------------------
(* The state machine *)

Last(op, impl, c, owner, d, args, kwargs, resp, pre, post, request, outcome) ==
    [op |-> op, impl |-> impl, c |-> c, owner |-> owner, d |-> d, args |-> args,
     kwargs |-> kwargs, resp |-> resp, pre |-> pre, post |-> post,
     request |-> request, outcome |-> outcome]

NoFields == Fields(None, None)

(* history: what the service granted in answer to the latest login of a    *)
(* client, when that login returned; None when it raised                   *)
Granted(res, resp) ==
    IF res.outcome.kind = "return"
    THEN Some([userId |-> resp.body[1]["data"].v["userId"].v,
               authToken |-> resp.body[1]["data"].v["authToken"].v])
    ELSE None

NoLast ==
    Last("none", "", None, None, None, << >>, << >>, None, NoFields, NoFields, None, NoOutcome)

(* the library is synchronous: an operation starts when the caller has the *)
(* outcome of the one before                                               *)
Idle == last.op = "none"

(* No client exists yet and no descriptor is bound.  api_v1_path is the     *)
(* class attribute both _url methods read; rocketchat.py never assigns it, *)
(* so it is absent unless a subclass or the caller defines it: both cases  *)
(* are initial states.                                                     *)
Init ==
    /\ st = [c \in Clients |-> "none"]
    /\ url = [c \in Clients |-> None]
    /\ user_id = [c \in Clients |-> None]
    /\ auth_token = [c \in Clients |-> None]
    /\ api = [d \in Desc |-> None]
    /\ api_v1_path \in {None, Some("/api/v1/")}
    /\ last = NoLast
    /\ granted = [c \in Clients |-> None]

(* the top-level ancestor of d: the class attribute d is reached through *)
RECURSIVE Root(_)
Root(d) == IF Registry[d].parent = None THEN d ELSE Root(Registry[d].parent[1])

(* RocketChat(url, username, password): __init__ sets the three fields and *)
(* calls self.login() with no arguments (username and password are not     *)
(* read); when login raises, __init__ raises and no object is handed to    *)
(* the caller.  The constructor's arguments are recorded in last.args.     *)
Construct(c, resp) ==
    /\ Idle
    /\ st[c] = "none"
    /\ LET s0 == [url |-> BaseUrl(c), user_id |-> None, auth_token |-> None,
                  api_v1_path |-> api_v1_path]
       IN  \E res \in {RocketChat_login(s0, << >>, resp)} :
           LET done == res.outcome.kind = "return" IN
           /\ st' = IF done THEN [st EXCEPT ![c] = "ready"] ELSE st
           /\ url' = IF done THEN [url EXCEPT ![c] = Some(BaseUrl(c))] ELSE url
           /\ user_id' = IF done THEN [user_id EXCEPT ![c] = res.fields.user_id] ELSE user_id
           /\ auth_token' = IF done THEN [auth_token EXCEPT ![c] = res.fields.auth_token]
                            ELSE auth_token
           /\ last' = Last("init", "rocketchat", Some(c), Some(c), None,
                           <<JStr(BaseUrl(c)), JStr(Username(c)), JStr(Password(c))>>, << >>,
                           IF res.request = None THEN None ELSE Some(resp),
                           NoFields, res.fields, res.request, res.outcome)
           /\ granted' = IF done THEN [granted EXCEPT ![c] = Granted(res, resp)] ELSE granted
    /\ UNCHANGED <<api, api_v1_path>>

(* api.login(...) on a client the caller holds *)
Login(c, kwargs, resp) ==
    /\ Idle
    /\ st[c] = "ready"
    /\ \E res \in {RocketChat_login(Session(c), kwargs, resp)} :
           /\ user_id' = [user_id EXCEPT ![c] = res.fields.user_id]
           /\ auth_token' = [auth_token EXCEPT ![c] = res.fields.auth_token]
           /\ last' = Last("login", "rocketchat", Some(c), Some(c), None, << >>, kwargs,
                           IF res.request = None THEN None ELSE Some(resp),
                           Fields(user_id[c], auth_token[c]), res.fields,
                           res.request, res.outcome)
           /\ granted' = [granted EXCEPT ![c] = Granted(res, resp)]
    /\ UNCHANGED <<st, url, api, api_v1_path>>

(* who an attribute is looked up on: a client, or the class (obj is None) *)
Holder(obj) == IF obj = None THEN TRUE ELSE st[obj[1]] = "ready"

FieldsOf(o) == IF o = None THEN NoFields ELSE Fields(user_id[o[1]], auth_token[o[1]])

(* api.<top>: the attribute lookup alone *)
Get(obj, top) ==
    /\ Idle
    /\ Holder(obj)
    /\ top \in TopLevel
    /\ api' = APIPath_get(api, obj, top)
    /\ last' = Last("get", "rocketchat", obj, api'[top], Some(top), << >>, << >>, None,
                    FieldsOf(api'[top]), FieldsOf(api'[top]), None, NoOutcome)
    /\ UNCHANGED <<st, url, user_id, auth_token, api_v1_path, granted>>

(* api.<path of d> called with args and kwargs: the lookup of the class    *)
(* attribute, the plain attribute lookups below it, and the call           *)
Call(obj, d, args, kwargs, resp) ==
    /\ Idle
    /\ Holder(obj)
    /\ \E f \in {APIPath_get(api, obj, Root(d))} :
       \E res \in {APIPath_call(APIPath_init(Registry[d]),
                                IF f[d] = None THEN None ELSE Some(Session(f[d][1])),
                                args, kwargs, resp)} :
         /\ api' = f
         /\ last' = Last("call", "rocketchat", obj, f[d], Some(d), args, kwargs,
                         IF res.request = None THEN None ELSE Some(resp),
                         FieldsOf(f[d]), FieldsOf(f[d]), res.request, res.outcome)
    /\ UNCHANGED <<st, url, user_id, auth_token, api_v1_path, granted>>

(* a call of an APIPath of apipath.py that the caller built for client c   *)
(* from the declaration of d                                               *)
ApipathCall(c, d, args, kwargs, resp) ==
    /\ Idle
    /\ st[c] = "ready"
    /\ \E res \in {apipath_call(apipath_init(c, Registry[d]), Session(c), args, kwargs, resp)} :
           last' = Last("call", "apipath", Some(c), Some(c), Some(d), args, kwargs,
                        IF res.request = None THEN None ELSE Some(resp),
                        FieldsOf(Some(c)), FieldsOf(Some(c)), res.request, res.outcome)
    /\ UNCHANGED <<st, url, user_id, auth_token, api, api_v1_path, granted>>


(* the caller takes the outcome (the value returned or the exception) *)
Handled ==
    /\ ~Idle
    /\ last' = NoLast
    /\ UNCHANGED <<st, url, user_id, auth_token, api, api_v1_path, granted>>

----------------------------------------------------------------------------
(* The specifications.  Each one lets the callers and the service choose   *)
(* from the input sets the claims checked under it are about.              *)

Holders == {None} \cup {Some(c) : c \in Clients}

(* the answers that matter to a call of d: none is read when d is a        *)
(* namespace, which sends no request                                       *)
AnswersTo(d) ==
    IF Registry[d].method = None THEN {Response(200, "ok", Some(Dict1("success", JBool(TRUE))))}
    ELSE CallResponses(Registry[d])

(* the positional arguments tried on d: every shape where the code looks   *)
(* at them or rejects the call, none elsewhere                             *)
ArgsTo(d) ==
    IF Registry[d].arg_endpoint \/ Registry[d].method = None THEN ArgSeqs ELSE {<< >>}

(* Spec: several clients, the descriptor tree reached through any of them  *)
(* or through the class, in any order                                      *)
Next ==
    \/ \E c \in Clients, r \in {LoginOk(1), LoginOk(2), LoginRejected} : Construct(c, r)
    \/ \E obj \in Holders, top \in TopLevel : Get(obj, top)
    \/ \E obj \in Holders, d \in Desc :
         Call(obj, d, IF Registry[d].arg_endpoint THEN <<JStr("SiteName")>> ELSE << >>,
              << >>, Response(200, "ok", Some(Dict1("success", JBool(TRUE)))))
    \/ Handled

Spec == Init /\ [][Next]_vars

(* SpecCall: one client, every endpoint called with every argument shape   *)
(* and every answer, through both APIPath classes                          *)
NextCall ==
    \/ \E r \in {LoginOk(1), LoginRejected} : Construct("A", r)
    \/ \E obj \in {None, Some("A")}, d \in Desc :
         \E args \in ArgsTo(d), kwargs \in KwSeqs, r \in AnswersTo(d) :
           Call(obj, d, args, kwargs, r)
    \/ \E d \in Desc : \E args \in ArgsTo(d), kwargs \in KwSeqs, r \in AnswersTo(d) :
         ApipathCall("A", d, args, kwargs, r)
    \/ Handled

SpecCall == Init /\ [][NextCall]_vars

(* SpecSession: the clients' sessions under every answer to a login, with  *)
(* calls of the logout endpoint in between                                 *)
NextSession ==
    \/ \E c \in Clients, r \in LoginResponses : Construct(c, r)
    \/ \E c \in Clients, kwargs \in LoginKwSeqs, r \in LoginResponses : Login(c, kwargs, r)
    \/ \E c \in Clients :
         Call(Some(c), "logout", << >>, << >>,
              Response(200, "ok", Some(Dict1("success", JBool(TRUE)))))
    \/ Handled

SpecSession == Init /\ [][NextSession]_vars


----------------------------------------------------------------------------
(* The service's side of the wire, used to state what a request carries *)

json_scalar(tok) ==
    IF tok = "true" THEN JBool(TRUE)
    ELSE IF tok = "false" THEN JBool(FALSE)
    ELSE JInt(CHOOSE n \in 0..9 : ToString(n) = tok)

RECURSIVE json_parse_items(_)
json_parse_items(toks) ==
    IF toks = << >> \/ toks[1] = "}" THEN << >>
    ELSE LET body == IF toks[1] = ", " THEN Tail(toks) ELSE toks
             isStr == body[5] = "\""
             val == IF isStr THEN JStr(body[6]) ELSE json_scalar(body[5])
             rest == SubSeq(body, IF isStr THEN 8 ELSE 6, Len(body))
         IN  <<[k |-> body[2], v |-> val]>> \o json_parse_items(rest)

(* the items of the JSON object whose text is toks *)
json_loads(toks) == json_parse_items(Tail(toks))

(* the last operation is a call of a registered endpoint *)
IsCall == last.op = "call"
Sent == last.request # None
LastDecl == Registry[last.d[1]]

(* the error of a call that is not a valid use of an endpoint *)
IsInvalidEndpointError(o, path) ==
    /\ o.kind = "raise"
    /\ o.exc[1].cls \in {"Exception", "ValueError"}
    /\ o.exc[1].args = <<JStr("Not a valid endpoint: "), JStr(path)>>

(* the error that carries the service's errorType and error *)
IsRemoteAPIError(o) == o.kind = "raise" /\ o.exc[1].cls = "RocketChatError"

----------------------------------------------------------------------------
(* C1: every request of a callable descriptor carries the named parameters *)
(* as query parameters and no body when the verb is GET, and JSON-encoded  *)
(* as the body with no query parameters when the verb is POST or DELETE.   *)
C1_VerbDecidesPayload ==
    (IsCall /\ Sent) =>
        LET rq == last.request[1] IN
        /\ Some(rq.method) = LastDecl.method
        /\ IF rq.method = "GET"
           THEN rq.params = Some(last.kwargs) /\ rq.data = None
           ELSE /\ rq.method \in {"POST", "DELETE"}
                /\ rq.params = None
                /\ rq.data # None
                /\ rq.data[1][1] = "{"
                /\ json_loads(rq.data[1]) = last.kwargs

C1_Witness ==
    /\ IsCall /\ Sent /\ last.impl = "rocketchat"
    /\ last.request[1].method = "DELETE"
    /\ Len(last.kwargs) = 2
    /\ last.request[1].data = Some(<<"{", "\"", "roomId", "\"", ": ", "\"", "r1", "\"", ", ",
                                     "\"", "count", "\"", ": ", "3", "}">>)

(* C2: a call of a namespace-only descriptor raises the invalid-endpoint   *)
(* error and no request is sent, whatever the arguments.                   *)
C2_NamespaceRaises ==
    (IsCall /\ LastDecl.method = None) =>
        /\ IsInvalidEndpointError(last.outcome, LastDecl.path)
        /\ ~Sent

C2_Witness ==
    /\ IsCall /\ last.d = Some("push.token") /\ last.impl = "rocketchat"
    /\ Len(last.args) = 2 /\ Len(last.kwargs) = 2
    /\ last.outcome.kind = "raise" /\ ~Sent

(* C3 as stated: a descriptor that accepts a path argument raises the      *)
(* invalid-endpoint error when called with no or with several positional   *)
(* arguments, and with exactly one sends its request to the composed URL   *)
(* followed by "/" and the argument's string form.                         *)
C3_PathArgument ==
    (IsCall /\ LastDecl.arg_endpoint) =>
        IF Len(last.args) = 1
        THEN /\ Sent
             /\ last.request[1].url = <<BaseUrl(last.owner[1]), LastDecl.api_root,
                                        LastDecl.path, "/", str_format(last.args[1])>>
        ELSE IsInvalidEndpointError(last.outcome, LastDecl.path) /\ ~Sent

(* C4 as stated: a decoded response with an "error" key makes the call     *)
(* raise the remote-API error with the response's errorType and error,     *)
(* whatever the status, the other keys and the result key.                 *)
C4_ErrorKeyRaises ==
    (IsCall /\ Sent /\ last.resp[1].body # None
       /\ "error" \in DOMAIN last.resp[1].body[1]) =>
        LET b == last.resp[1].body[1] IN
        /\ IsRemoteAPIError(last.outcome)
        /\ "errorType" \in DOMAIN b => last.outcome.exc[1].args[1] = b["errorType"]
        /\ last.outcome.exc[1].args[2] = b["error"]

(* C5: with no "error" key in the decoded response, a descriptor with a    *)
(* result key returns the value stored at that key, and a descriptor       *)
(* without one returns the whole decoded object.                           *)
C5_ResultKey ==
    (IsCall /\ Sent /\ last.resp[1].body # None
       /\ "error" \notin DOMAIN last.resp[1].body[1]) =>
        LET b == last.resp[1].body[1] IN
        IF LastDecl.result_key = None
        THEN last.outcome = Return(JObj(b))
        ELSE LastDecl.result_key[1] \in DOMAIN b =>
               /\ last.outcome = Return(b[LastDecl.result_key[1]])
               /\ last.outcome # Return(JObj(b))

C5_Witness ==
    /\ IsCall /\ Sent /\ last.impl = "rocketchat"
    /\ last.d = Some("channels.archive")
    /\ last.resp[1].body = Some(Dict1("success", JBool(TRUE)))
    /\ last.outcome = Return(JBool(TRUE))


(* the header mapping with token t, user id u and the content-type entry   *)
(* spelled ct                                                              *)
HeaderOf(t, u, ct) ==
    [h \in {"X-Auth-Token", "X-User-Id", ct} |->
       CASE h = "X-Auth-Token" -> Some(t)
         [] h = "X-User-Id" -> Some(u)
         [] OTHER -> Some("application/json")]

IsLogin == last.op \in {"init", "login"}

(* C6 as stated: once a login has returned on data {userId: u, authToken:  *)
(* t}, the session holds u and t and auth_header() is exactly the mapping  *)
(* X-Auth-Token: t, X-User-Id: u, Content-Type: application/json, until    *)
(* the next login; the requests of the calls in between carry it.          *)
C6_AuthHeaderExact ==
    /\ \A c \in Clients :
          (st[c] = "ready" /\ granted[c] # None) =>
              /\ user_id[c] = Some(granted[c][1].userId)
              /\ auth_token[c] = Some(granted[c][1].authToken)
              /\ auth_header(Session(c))
                   = HeaderOf(granted[c][1].authToken, granted[c][1].userId, "Content-Type")
    /\ (IsCall /\ Sent /\ granted[last.owner[1]] # None) =>
          last.request[1].headers
            = Some(HeaderOf(granted[last.owner[1]][1].authToken,
                            granted[last.owner[1]][1].userId, "Content-Type"))

(* C6 amended: the same, the third entry being spelled Content-type.       *)
C6_AuthHeader ==
    /\ \A c \in Clients :
          (st[c] = "ready" /\ granted[c] # None) =>
              /\ user_id[c] = Some(granted[c][1].userId)
              /\ auth_token[c] = Some(granted[c][1].authToken)
              /\ auth_header(Session(c))
                   = HeaderOf(granted[c][1].authToken, granted[c][1].userId, "Content-type")
    /\ (IsCall /\ Sent /\ granted[last.owner[1]] # None) =>
          last.request[1].headers
            = Some(HeaderOf(granted[last.owner[1]][1].authToken,
                            granted[last.owner[1]][1].userId, "Content-type"))

C6_Witness ==
    /\ IsCall /\ Sent /\ last.c = Some("A") /\ last.owner = Some("A")
    /\ st["B"] = "ready"
    /\ granted["A"] = Some([userId |-> "u2", authToken |-> "t2"])
    /\ granted["B"] = Some([userId |-> "u1", authToken |-> "t1"])
    /\ last.request[1].headers[1]["X-Auth-Token"] = Some("t2")

C8_UrlComposition ==
    Sent =>
        IF IsCall
        THEN last.request[1].url
               = <<BaseUrl(last.owner[1]), LastDecl.api_root, LastDecl.path>>
                 \o (IF LastDecl.arg_endpoint
                     THEN <<"/", str_format(last.args[1])>> ELSE << >>)
        ELSE last.request[1].url = <<BaseUrl(last.c[1]), "/api/v1/", "login">>

(* C9 as stated: a request carries the session's auth header exactly when  *)
(* the descriptor is declared to require authentication.                   *)
C9_AuthHeaderIffRequired ==
    (IsCall /\ Sent) =>
        IF LastDecl.auth
        THEN last.request[1].headers = Some(auth_header(Session(last.owner[1])))
        ELSE last.request[1].headers = None

(* C10 as stated: a descriptor reached through a client, at any depth,     *)
(* uses that client's session: its base URL and its token.                 *)
C10_OwnSession ==
    (last.op \in {"get", "call"} /\ last.c # None) =>
        /\ last.owner = last.c
        /\ Sent => /\ last.request[1].url[1] = BaseUrl(last.c[1])
                   /\ last.request[1].headers[1]["X-Auth-Token"] = auth_token[last.c[1]]

(* the token and the user identifier of a session are both there or both   *)
(* missing                                                                 *)
Paired(f) == (f.user_id = None) <=> (f.auth_token = None)

(* C11 as stated: after any sequence of logins (returned, rejected, or     *)
(* failed part-way on a response that lacks data.userId or                 *)
(* data.authToken), every session has its token and its user identifier    *)
(* both present or both absent: the sessions of the clients the program    *)
(* holds, and the session a login has just worked on.                      *)
C11_TokenAndUserTogether ==
    /\ \A c \in Clients : st[c] = "ready" => Paired(Fields(user_id[c], auth_token[c]))
    /\ IsLogin => Paired(last.post)

(* C12 as stated: RocketChat(url, username, password) sends the login      *)
(* request with that username and password before it returns; when it      *)
(* returns the session holds the user id and the token of the response,    *)
(* and when the login is rejected the construction raises and the client   *)
(* is not ready.                                                           *)
C12_ConstructLogsIn ==
    last.op = "init" =>
        LET c == last.c[1] IN
        /\ Sent =>
             /\ last.request[1].method = "POST"
             /\ last.request[1].url = <<BaseUrl(c), "/api/v1/", "login">>
             /\ last.request[1].data
                  = Some(<<[k |-> "username", v |-> last.args[2]],
                           [k |-> "password", v |-> last.args[3]]>>)
        /\ last.outcome.kind = "return" =>
             /\ Sent
             /\ st[c] = "ready"
             /\ user_id[c] = Some(last.resp[1].body[1]["data"].v["userId"].v)
             /\ auth_token[c] = Some(last.resp[1].body[1]["data"].v["authToken"].v)
        /\ (Sent /\ last.resp[1].body # None
              /\ "status" \in DOMAIN last.resp[1].body[1]
              /\ last.resp[1].body[1]["status"] # JStr("success")) =>
             last.outcome.kind = "raise" /\ st[c] = "none"

(* the error of a response that cannot be used: the class the spec names,  *)
(* or the decoder's own                                                    *)
IsMalformedResponseError(o) ==
    o.kind = "raise" /\ o.exc[1].cls \in {"MalformedResponseError", "JSONDecodeError"}

(* C13 as stated: a call whose response is not JSON, or has no "error" key *)
(* and lacks the descriptor's result key, raises the malformed-response    *)
(* error and returns nothing; for a body that is not JSON the error        *)
(* carries the status code and the text of the response.                   *)
C13_MalformedResponse ==
    (IsCall /\ Sent) =>
        LET r == last.resp[1] IN
        /\ r.body = None =>
             /\ IsMalformedResponseError(last.outcome)
             /\ last.outcome.exc[1].args = <<JInt(r.status_code), JStr(r.text)>>
        /\ (r.body # None /\ "error" \notin DOMAIN r.body[1]
              /\ LastDecl.result_key # None
              /\ LastDecl.result_key[1] \notin DOMAIN r.body[1]) =>
             IsMalformedResponseError(last.outcome)

(* C14 as stated: a call of a registered endpoint other than logout,       *)
(* whether it returns or raises, leaves every session's base URL, user id  *)
(* and token as they were; a call of logout that returns leaves the        *)
(* session it was called on (the client's, or the bound one when it is     *)
(* called on the class) with no token and no user id.                      *)
C14_OnlyLoginAndLogout ==
    [][ last'.op = "call" =>
          IF last'.d = Some("logout") /\ last'.outcome.kind = "return"
          THEN LET c == IF last'.c # None THEN last'.c[1] ELSE last'.owner[1] IN
               /\ user_id'[c] = None
               /\ auth_token'[c] = None
               /\ url' = url
          ELSE UNCHANGED <<url, user_id, auth_token>> ]_vars

====
